---- MODULE Spec2Model ----
(***************************************************************************)
(* Model of fabfile.py: the deploy, clear_cache and fetch_data tasks and   *)
(* ProjectEnvironment.reset_data_from, as sequences of Fabric calls        *)
(* (fab.run, fab.local, fab.get, fab.prompt).  Every remote or local       *)
(* command the code issues is appended to `log`, every prompt it asks to   *)
(* `prompts`.  Strings the code inspects are sequences of one-character    *)
(* strings.                                                                *)
(***************************************************************************)
EXTENDS Integers, Sequences, FiniteSets, TLC

\* ---------------------------------------------------------------- bounds
\* longest text the backup command prints before the marker
MaxPre == 1
\* longest text the backup command prints after the marker
MaxSuf == 2
\* largest number of hosts given with -H
MaxHosts == 2

\* ------------------------------------------------------- string helpers
Min(S) == CHOOSE x \in S : \A y \in S : x <= y

Max(S) == CHOOSE x \in S : \A y \in S : x >= y

SeqsUpTo(S, n) == UNION {[1..k -> S] : k \in 0..n}

\* str.find(sub): lowest 0-based index where sub occurs, -1 when it does not
find(s, sub) ==
    LET idx == {i \in 0..(Len(s) - Len(sub)) : SubSeq(s, i + 1, i + Len(sub)) = sub}
    IN IF idx = {} THEN -1 ELSE Min(idx)

\* str.split(sep, 1): at most one split, at the first occurrence of sep
split(s, sep) ==
    LET i == find(s, sep)
    IN IF i < 0 THEN <<s>>
       ELSE <<SubSeq(s, 1, i), SubSeq(s, i + Len(sep) + 1, Len(s))>>

\* str.strip(): leading and trailing whitespace removed
strip(s) ==
    LET keep == {i \in 1..Len(s) : s[i] # " "}
    IN IF keep = {} THEN <<>> ELSE SubSeq(s, Min(keep), Max(keep))

\* os.path.basename(p): what follows the last "/"
basename(p) ==
    LET slashes == {i \in 1..Len(p) : p[i] = "/"}
    IN IF slashes = {} THEN p ELSE SubSeq(p, Max(slashes) + 1, Len(p))

\* tempfile.gettempdir()
gettempdir == <<"/", "t", "m", "p">>

\* os.path.join(a, b) for a relative b
join(a, b) == a \o <<"/">> \o b

\* the literal "successfully backed up to:" of backup_database
Marker ==
    <<"s","u","c","c","e","s","s","f","u","l","l","y"," ",
      "b","a","c","k","e","d"," ","u","p"," ","t","o",":">>

\* what ./manage.py db_backup may print: some text, the marker or not, some text
PreAlphabet == {"d", ":"}

SufAlphabet == {" ", "/", "f", ":"}

Outputs ==
    {p \o m \o s : p \in SeqsUpTo(PreAlphabet, MaxPre),
                   m \in {<<>>, Marker},
                   s \in SeqsUpTo(SufAlphabet, MaxSuf)}

\* what the operator may type at a fab.prompt ("" takes the default)
Inputs == {"y", "n", ""}

\* fab.prompt(question, default='n'): empty input gives the default
prompt(input) == IF input = "" THEN "n" ELSE input

\* _yes(question)
_yes(input) == prompt(input) = "y"

\* ------------------------------------------------------------- the state
ENVIRONMENTS == {"stage", "live"}

VARIABLES
    pc,                  \* the statement the running task is at
    task,                \* the task or method invoked
    env,                 \* the environment the task works on (self)
    other_env,           \* reset_data_from's argument
    hosts,               \* len(fab.env.hosts)
    CACHE_CLEAR_MODELS,  \* TRUE when the configured value is non-empty
    log,                 \* the commands issued, in order, with their results
    prompts,             \* the prompts asked, in order, with their answers
    db_file,             \* what the last backup_database call returned
    local_db_file        \* fetch_data's local_db_file

vars == <<pc, task, env, other_env, hosts, CACHE_CLEAR_MODELS, log, prompts,
          db_file, local_db_file>>

None == <<>>

Cmd(c, w, e, s, a, d, o, out) ==
    [cmd |-> c, where |-> w, env |-> e, src |-> s, arg |-> a, dst |-> d,
     ok |-> o, out |-> out]

Prompt(q, f, t, input) ==
    [q |-> q, from |-> f, to |-> t, answer |-> _yes(input)]

Init ==
    /\ pc = "idle"
    /\ task = "none"
    /\ env = "none"
    /\ other_env = "none"
    /\ hosts \in 0..MaxHosts
    /\ CACHE_CLEAR_MODELS \in BOOLEAN
    /\ log = <<>>
    /\ prompts = <<>>
    /\ db_file = None
    /\ local_db_file = None

\* reset_data_from runs as part of deploy:stage or on its own
InReset == task = "reset_data_from" \/ (task = "deploy" /\ env = "stage")

\* fab.run, fab.local and fab.get abort the task when the command fails
\* (env.warn_only is off unless the code sets it)
fab_run_warn_only(ok, next) == next

fab_run(ok, next) == IF ok THEN next ELSE "aborted"

Issue(rec, next) ==
    /\ log' = Append(log, rec)
    /\ pc' = fab_run(rec.ok, next)

Ask(p, next) ==
    /\ prompts' = Append(prompts, p)
    /\ pc' = next

\* ------------------------------------------------ the order of the steps
\* the statements of reset_data_from, in program order
reset_data_from_clear_first ==
    <<"reset_prompt", "clear_cache", "clear_database", "backup_database",
      "load_database_from", "copy_prompt", "mv", "cp", "rm">>

reset_data_from_body ==
    <<"reset_prompt", "clear_cache", "backup_database", "clear_database",
      "load_database_from", "copy_prompt", "mv", "cp", "rm">>

\* the statements of deploy's 'live' branch, in program order
deploy_live_body ==
    <<"backup_db_prompt", "backup_database", "backup_uploads_prompt",
      "backup_uploads">>

\* the statements of fetch_data, in program order (backup_data inlined)
fetch_data_body ==
    <<"check_hosts", "backup_database", "backup_uploads", "get",
      "local_prompt", "local_db_clear", "local_db_load", "uploads_prompt",
      "local_rdiff">>

NextIn(body, s, ret) ==
    LET i == CHOOSE k \in 1..Len(body) : body[k] = s
    IN IF i = Len(body) THEN ret ELSE body[i + 1]

\* where reset_data_from returns to: deploy goes on to migrate
ResetReturn == IF task = "deploy" THEN "migrate_database" ELSE "done"

\* the statement that follows statement s in the running task
Continuation(s) ==
    IF InReset THEN NextIn(reset_data_from_body, s, ResetReturn)
    ELSE IF task = "deploy" THEN NextIn(deploy_live_body, s, "migrate_database")
    ELSE IF task = "fetch_data" THEN NextIn(fetch_data_body, s, "done")
    ELSE "done"

\* deploy: the branch on variant after pull_updates
deploy_branch(variant) ==
    IF variant = "stage" THEN "reset_prompt"
    ELSE IF variant = "live" THEN "backup_db_prompt"
    ELSE "migrate_database"

\* "if not _yes(...): return" of reset_data_from, first prompt
after_reset_prompt_ignored(answer) == Continuation("reset_prompt")

after_reset_prompt(answer) ==
    IF answer THEN Continuation("reset_prompt") ELSE ResetReturn

\* "if not _yes(...): return" of reset_data_from, second prompt
after_copy_prompt(answer) ==
    IF answer THEN Continuation("copy_prompt") ELSE ResetReturn

\* deploy: if _yes("Backup dabase?")
after_backup_db_prompt_ignored(answer) == Continuation("backup_db_prompt")

after_backup_db_prompt(answer) ==
    IF answer THEN Continuation("backup_db_prompt") ELSE "backup_uploads_prompt"

\* deploy: if _yes("Backup uploads?")
after_backup_uploads_prompt(answer) ==
    IF answer THEN Continuation("backup_uploads_prompt") ELSE "migrate_database"

\* fetch_data: "if not _yes(...): return"
after_local_prompt_independent(answer) ==
    IF answer THEN Continuation("local_prompt") ELSE "uploads_prompt"

after_local_prompt(answer) ==
    IF answer THEN Continuation("local_prompt") ELSE "done"

\* fetch_data: if _yes("Fetch uploads as well?")
after_uploads_prompt(answer) ==
    IF answer THEN Continuation("uploads_prompt") ELSE "done"

\* fetch_data: len(fab.env.hosts) != 1 aborts
hosts_ok_at_most_one(n) == n <= 1

hosts_ok(n) == n = 1

\* backup_database: the assertion on the command's result
backup_assert(succeeded, out) == succeeded /\ find(out, Marker) > 0

\* backup_database: result.split(':', 1)[1].strip()
actual_backup_file_split_all(out) ==
    strip(split(split(out, <<":">>)[2], <<":">>)[1])

actual_backup_file(out) == strip(split(out, <<":">>)[2])

\* the environment backup_database runs on: other_env inside reset_data_from
BackupEnv == IF InReset THEN other_env ELSE env

\* ------------------------------------------------------------- the tasks
deploy(variant) ==
    /\ pc = "idle"
    /\ task' = "deploy"
    /\ env' = variant
    /\ other_env' = IF variant = "stage" THEN "live" ELSE "none"
    /\ pc' = "pull_updates"
    /\ UNCHANGED <<hosts, CACHE_CLEAR_MODELS, log, prompts, db_file, local_db_file>>

clear_cache(variant) ==
    /\ pc = "idle"
    /\ task' = "clear_cache"
    /\ env' = variant
    /\ pc' = "clear_cache"
    /\ UNCHANGED <<other_env, hosts, CACHE_CLEAR_MODELS, log, prompts, db_file,
                   local_db_file>>

fetch_data(variant) ==
    /\ pc = "idle"
    /\ task' = "fetch_data"
    /\ env' = variant
    /\ pc' = "check_hosts"
    /\ UNCHANGED <<other_env, hosts, CACHE_CLEAR_MODELS, log, prompts, db_file,
                   local_db_file>>

reset_data_from(self, other) ==
    /\ pc = "idle"
    /\ self # other
    /\ task' = "reset_data_from"
    /\ env' = self
    /\ other_env' = other
    /\ pc' = "reset_prompt"
    /\ UNCHANGED <<hosts, CACHE_CLEAR_MODELS, log, prompts, db_file, local_db_file>>

\* ------------------------------------------------ ProjectEnvironment steps
pull_updates ==
    /\ pc = "pull_updates"
    /\ \E ok \in BOOLEAN :
         Issue(Cmd("git pull", "remote", env, "none", None, None, ok, None),
               deploy_branch(env))
    /\ UNCHANGED <<task, env, other_env, hosts, CACHE_CLEAR_MODELS, prompts,
                   db_file, local_db_file>>

reset_prompt ==
    /\ pc = "reset_prompt"
    /\ \E input \in Inputs :
         Ask(Prompt("Reset database", other_env, env, input),
             after_reset_prompt(_yes(input)))
    /\ UNCHANGED <<task, env, other_env, hosts, CACHE_CLEAR_MODELS, log,
                   db_file, local_db_file>>

env_clear_cache ==
    /\ pc = "clear_cache"
    /\ IF CACHE_CLEAR_MODELS
       THEN \E ok \in BOOLEAN :
              Issue(Cmd("cache_clear", "remote", env, "none", None, None, ok, None),
                    Continuation("clear_cache"))
       ELSE /\ pc' = Continuation("clear_cache")
            /\ UNCHANGED log
    /\ UNCHANGED <<task, env, other_env, hosts, CACHE_CLEAR_MODELS, prompts,
                   db_file, local_db_file>>

backup_database ==
    /\ pc = "backup_database"
    /\ \E ok \in BOOLEAN, out \in Outputs :
         /\ log' = Append(log, Cmd("db_backup", "remote", BackupEnv, "none",
                                   None, None, ok, out))
         /\ IF fab_run(ok, "ran") = "aborted"
            THEN pc' = "aborted" /\ UNCHANGED db_file
            ELSE IF ~backup_assert(ok, out)
            THEN pc' = "aborted" /\ UNCHANGED db_file
            ELSE /\ db_file' = actual_backup_file(out)
                 /\ pc' = Continuation("backup_database")
    /\ UNCHANGED <<task, env, other_env, hosts, CACHE_CLEAR_MODELS, prompts,
                   local_db_file>>

clear_database ==
    /\ pc = "clear_database"
    /\ \E ok \in BOOLEAN :
         Issue(Cmd("db_clear", "remote", env, "none", None, None, ok, None),
               Continuation("clear_database"))
    /\ UNCHANGED <<task, env, other_env, hosts, CACHE_CLEAR_MODELS, prompts,
                   db_file, local_db_file>>

load_database_from ==
    /\ pc = "load_database_from"
    /\ \E ok \in BOOLEAN :
         Issue(Cmd("db_load", "remote", env, "none", db_file, None, ok, None),
               Continuation("load_database_from"))
    /\ UNCHANGED <<task, env, other_env, hosts, CACHE_CLEAR_MODELS, prompts,
                   db_file, local_db_file>>

copy_prompt ==
    /\ pc = "copy_prompt"
    /\ \E input \in Inputs :
         Ask(Prompt("Copy media files", env, other_env, input),
             after_copy_prompt(_yes(input)))
    /\ UNCHANGED <<task, env, other_env, hosts, CACHE_CLEAR_MODELS, log,
                   db_file, local_db_file>>

mv_uploads ==
    /\ pc = "mv"
    /\ \E ok \in BOOLEAN :
         Issue(Cmd("mv", "remote", env, "none", None, None, ok, None),
               Continuation("mv"))
    /\ UNCHANGED <<task, env, other_env, hosts, CACHE_CLEAR_MODELS, prompts,
                   db_file, local_db_file>>

cp_uploads ==
    /\ pc = "cp"
    /\ \E ok \in BOOLEAN :
         Issue(Cmd("cp", "remote", env, other_env, None, None, ok, None),
               Continuation("cp"))
    /\ UNCHANGED <<task, env, other_env, hosts, CACHE_CLEAR_MODELS, prompts,
                   db_file, local_db_file>>

rm_uploads_bak ==
    /\ pc = "rm"
    /\ \E ok \in BOOLEAN :
         Issue(Cmd("rm", "remote", env, "none", None, None, ok, None),
               Continuation("rm"))
    /\ UNCHANGED <<task, env, other_env, hosts, CACHE_CLEAR_MODELS, prompts,
                   db_file, local_db_file>>

backup_db_prompt ==
    /\ pc = "backup_db_prompt"
    /\ \E input \in Inputs :
         Ask(Prompt("Backup dabase", "none", "none", input),
             after_backup_db_prompt(_yes(input)))
    /\ UNCHANGED <<task, env, other_env, hosts, CACHE_CLEAR_MODELS, log,
                   db_file, local_db_file>>

backup_uploads_prompt ==
    /\ pc = "backup_uploads_prompt"
    /\ \E input \in Inputs :
         Ask(Prompt("Backup uploads", "none", "none", input),
             after_backup_uploads_prompt(_yes(input)))
    /\ UNCHANGED <<task, env, other_env, hosts, CACHE_CLEAR_MODELS, log,
                   db_file, local_db_file>>

backup_uploads ==
    /\ pc = "backup_uploads"
    /\ \E ok \in BOOLEAN :
         Issue(Cmd("rdiff-backup", "remote", env, "none", None, None, ok, None),
               Continuation("backup_uploads"))
    /\ UNCHANGED <<task, env, other_env, hosts, CACHE_CLEAR_MODELS, prompts,
                   db_file, local_db_file>>

migrate_database ==
    /\ pc = "migrate_database"
    /\ \E ok \in BOOLEAN :
         Issue(Cmd("migrate", "remote", env, "none", None, None, ok, None),
               "reload_wsgi")
    /\ UNCHANGED <<task, env, other_env, hosts, CACHE_CLEAR_MODELS, prompts,
                   db_file, local_db_file>>

reload_wsgi ==
    /\ pc = "reload_wsgi"
    /\ \E ok \in BOOLEAN :
         Issue(Cmd("touch app.wsgi", "remote", env, "none", None, None, ok, None),
               "done")
    /\ UNCHANGED <<task, env, other_env, hosts, CACHE_CLEAR_MODELS, prompts,
                   db_file, local_db_file>>

\* ------------------------------------------------------ fetch_data steps
check_hosts ==
    /\ pc = "check_hosts"
    /\ pc' = IF hosts_ok(hosts) THEN Continuation("check_hosts") ELSE "aborted"
    /\ UNCHANGED <<task, env, other_env, hosts, CACHE_CLEAR_MODELS, log, prompts,
                   db_file, local_db_file>>

get_db_backup ==
    /\ pc = "get"
    /\ local_db_file' = join(gettempdir, basename(db_file))
    /\ \E ok \in BOOLEAN :
         Issue(Cmd("get", "remote", env, "none", db_file, local_db_file', ok, None),
               Continuation("get"))
    /\ UNCHANGED <<task, env, other_env, hosts, CACHE_CLEAR_MODELS, prompts,
                   db_file>>

local_prompt ==
    /\ pc = "local_prompt"
    /\ \E input \in Inputs :
         Ask(Prompt("Reset local database", env, "local", input),
             after_local_prompt(_yes(input)))
    /\ UNCHANGED <<task, env, other_env, hosts, CACHE_CLEAR_MODELS, log,
                   db_file, local_db_file>>

local_db_clear ==
    /\ pc = "local_db_clear"
    /\ \E ok \in BOOLEAN :
         Issue(Cmd("db_clear", "local", "local", "none", None, None, ok, None),
               Continuation("local_db_clear"))
    /\ UNCHANGED <<task, env, other_env, hosts, CACHE_CLEAR_MODELS, prompts,
                   db_file, local_db_file>>

local_db_load ==
    /\ pc = "local_db_load"
    /\ \E ok \in BOOLEAN :
         Issue(Cmd("db_load", "local", "local", "none", local_db_file, None, ok, None),
               Continuation("local_db_load"))
    /\ UNCHANGED <<task, env, other_env, hosts, CACHE_CLEAR_MODELS, prompts,
                   db_file, local_db_file>>

uploads_prompt ==
    /\ pc = "uploads_prompt"
    /\ \E input \in Inputs :
         Ask(Prompt("Fetch uploads", "none", "none", input),
             after_uploads_prompt(_yes(input)))
    /\ UNCHANGED <<task, env, other_env, hosts, CACHE_CLEAR_MODELS, log,
                   db_file, local_db_file>>

local_rdiff ==
    /\ pc = "local_rdiff"
    /\ \E ok \in BOOLEAN :
         Issue(Cmd("rdiff-backup", "local", "local", env, None, None, ok, None),
               Continuation("local_rdiff"))
    /\ UNCHANGED <<task, env, other_env, hosts, CACHE_CLEAR_MODELS, prompts,
                   db_file, local_db_file>>

Next ==
    \/ \E variant \in ENVIRONMENTS : deploy(variant)
    \/ \E variant \in ENVIRONMENTS : clear_cache(variant)
    \/ \E variant \in ENVIRONMENTS : fetch_data(variant)
    \/ \E self \in ENVIRONMENTS, other \in ENVIRONMENTS : reset_data_from(self, other)
    \/ pull_updates
    \/ reset_prompt
    \/ env_clear_cache
    \/ backup_database
    \/ clear_database
    \/ load_database_from
    \/ copy_prompt
    \/ mv_uploads
    \/ cp_uploads
    \/ rm_uploads_bak
    \/ backup_db_prompt
    \/ backup_uploads_prompt
    \/ backup_uploads
    \/ migrate_database
    \/ reload_wsgi
    \/ check_hosts
    \/ get_db_backup
    \/ local_prompt
    \/ local_db_clear
    \/ local_db_load
    \/ uploads_prompt
    \/ local_rdiff

Spec == Init /\ [][Next]_vars

\* ================================================================ claims
Terminal == pc \in {"done", "aborted"}

Last(q) == q[Len(q)]

\* the commands issued, as <<command, environment>> pairs
Steps == [i \in 1..Len(log) |-> <<log[i].cmd, log[i].env>>]

Issued(c, w) == \E i \in 1..Len(log) : log[i].cmd = c /\ log[i].where = w

Asked(q) == \E i \in 1..Len(prompts) : prompts[i].q = q

Answered(q, a) ==
    \E i \in 1..Len(prompts) : prompts[i].q = q /\ prompts[i].answer = a

AllPromptsYes == \A i \in 1..Len(prompts) : prompts[i].answer

AllExitOk == \A i \in 1..Len(log) : log[i].ok

\* the marker stands in out from its i-th character on
MarkerAt(out, i) ==
    /\ i + Len(Marker) - 1 <= Len(out)
    /\ \A k \in 1..Len(Marker) : out[i + k - 1] = Marker[k]

HasMarker(out) == \E i \in 1..Len(out) : MarkerAt(out, i)

\* every command did what its contract says: exit status 0, and the backup
\* command printed its marker
AllCmdsSucceeded ==
    \A i \in 1..Len(log) :
        log[i].ok /\ (log[i].cmd = "db_backup" => HasMarker(log[i].out))

\* the text after the first ":" of out, without surrounding blanks
PathReported(out) ==
    LET c == Min({i \in 1..Len(out) : out[i] = ":"})
        rest == [i \in 1..(Len(out) - c) |-> out[c + i]]
        lead == Min({i \in 1..(Len(rest) + 1) : i = Len(rest) + 1 \/ rest[i] # " "})
        trail == Max({i \in 0..Len(rest) : i = 0 \/ rest[i] # " "})
    IN [i \in 1..(IF trail < lead THEN 0 ELSE trail - lead + 1) |-> rest[lead + i - 1]]

DbMutations == {"cache_clear", "db_backup", "db_clear", "db_load", "mv", "cp", "rm"}

UploadMutations == {"mv", "cp", "rm"}

\* C1: in reset_data_from, a declined first prompt means no cache-clear,
\* backup, db_clear, db_load, mv, cp or rm command is ever issued, and a
\* declined second prompt means no mv, cp or rm command is ever issued.
C1_DeclinedPromptIssuesNothing ==
    InReset =>
        /\ Answered("Reset database", FALSE) =>
              \A i \in 1..Len(log) : log[i].cmd \notin DbMutations
        /\ Answered("Copy media files", FALSE) =>
              \A i \in 1..Len(log) : log[i].cmd \notin UploadMutations

C1_Witness ==
    /\ task = "reset_data_from"
    /\ pc = "done"
    /\ Answered("Reset database", FALSE)
    /\ log = <<>>

StageTail ==
    <<<<"db_backup", "live">>, <<"db_clear", "stage">>, <<"db_load", "stage">>,
      <<"mv", "stage">>, <<"cp", "stage">>, <<"rm", "stage">>,
      <<"migrate", "stage">>, <<"touch app.wsgi", "stage">>>>

StageEight ==
    <<<<"git pull", "stage">>, <<"cache_clear", "stage">>>> \o StageTail

StageSeven == <<<<"git pull", "stage">>>> \o StageTail

StageAllYes ==
    /\ task = "deploy"
    /\ env = "stage"
    /\ Terminal
    /\ AllPromptsYes

\* C2 (as stated): deploy:stage with every prompt answered yes and every
\* command succeeding (the run reaches its end) issues exactly pull,
\* cache-clear, backup of live, clear, load, mv+cp+rm, migrate, reload.
C2_StageAllYesEightSteps ==
    (StageAllYes /\ AllCmdsSucceeded /\ pc = "done") => Steps = StageEight

\* C2 (amended): deploy:stage with every prompt answered yes and every
\* command exiting 0 issues pull, the cache-clear only when
\* CACHE_CLEAR_MODELS is non-empty, and the backup of live; when
\* backup_database returns (marker found past index 0) it goes on with
\* clear, load of the returned artifact, mv, cp from live, rm, migrate and
\* reload, and otherwise it stops right after the backup command.
C2_StageAllYesSteps ==
    (StageAllYes /\ AllExitOk) =>
        LET head == IF CACHE_CLEAR_MODELS
                    THEN <<<<"git pull", "stage">>, <<"cache_clear", "stage">>>>
                    ELSE <<<<"git pull", "stage">>>>
            b == Len(head) + 1
        IN /\ Len(log) >= b
           /\ IF pc = "done"
              THEN /\ Steps = head \o StageTail
                   /\ log[b + 2].arg = PathReported(log[b].out)
                   /\ log[b + 4].src = "live"
              ELSE /\ Steps = head \o <<<<"db_backup", "live">>>>
                   /\ \A k \in 2..Len(log[b].out) : ~MarkerAt(log[b].out, k)

C2_Witness ==
    /\ StageAllYes
    /\ pc = "done"
    /\ CACHE_CLEAR_MODELS
    /\ Steps = StageEight

LiveDeploy == task = "deploy" /\ env = "live"

\* C3: in deploy:live the database backup is issued exactly when the first
\* prompt is answered yes and the uploads backup exactly when the second is
\* answered yes, both after pull and before migrate; with both answered no
\* a run whose commands succeed issues exactly pull, migrate, reload.
C3_LiveBackupsFollowPrompts ==
    LiveDeploy =>
        /\ Terminal =>
              /\ Issued("db_backup", "remote") <=> Answered("Backup dabase", TRUE)
              /\ Issued("rdiff-backup", "remote") <=> Answered("Backup uploads", TRUE)
        /\ \A i \in 1..Len(log) :
              log[i].cmd \in {"db_backup", "rdiff-backup"} =>
                  /\ i > 1
                  /\ log[1].cmd = "git pull"
                  /\ \A j \in 1..i : log[j].cmd # "migrate"
        /\ ( /\ Terminal
             /\ AllExitOk
             /\ Answered("Backup dabase", FALSE)
             /\ Answered("Backup uploads", FALSE) ) =>
              Steps = <<<<"git pull", "live">>, <<"migrate", "live">>,
                        <<"touch app.wsgi", "live">>>>

C3_Witness ==
    /\ LiveDeploy
    /\ pc = "done"
    /\ Answered("Backup dabase", FALSE)
    /\ Answered("Backup uploads", TRUE)
    /\ Steps = <<<<"git pull", "live">>, <<"rdiff-backup", "live">>,
                 <<"migrate", "live">>, <<"touch app.wsgi", "live">>>>

\* C4: backup_database fails fatally exactly when the backup command failed
\* or its output lacks the marker; otherwise it returns the text after the
\* first ":" of the output, trimmed.
C4_BackupFailsIffFailedOrNoMarker ==
    (Len(log) > 0 /\ Last(log).cmd = "db_backup") =>
        LET r == Last(log)
            bad == ~r.ok \/ ~HasMarker(r.out)
        IN /\ (pc = "aborted") <=> bad
           /\ ~bad => db_file = PathReported(r.out)

\* C5: fetch_data with no host or more than one host aborts at once: no
\* command is issued and no prompt is asked.
C5_FetchNeedsOneHost ==
    (task = "fetch_data" /\ hosts # 1) =>
        /\ pc \in {"check_hosts", "aborted"}
        /\ log = <<>>
        /\ prompts = <<>>

C5_Witness ==
    /\ task = "fetch_data"
    /\ hosts = 0
    /\ pc = "aborted"
    /\ log = <<>>

\* C6: in reset_data_from a failed command ends the run: it is the last
\* command issued, and when cp fails after mv succeeded the run stops there,
\* with no rm and no second mv.
C6_FailureHaltsReset ==
    InReset =>
        /\ \A i \in 1..Len(log) : ~log[i].ok => (i = Len(log) /\ pc = "aborted")
        /\ \A i \in 1..Len(log) :
              (log[i].cmd = "cp" /\ ~log[i].ok) =>
                  /\ i > 1
                  /\ log[i - 1].cmd = "mv"
                  /\ log[i - 1].ok
                  /\ Cardinality({j \in 1..Len(log) : log[j].cmd = "mv"}) = 1
                  /\ \A j \in 1..Len(log) : log[j].cmd # "rm"

C6_Witness ==
    /\ task = "reset_data_from"
    /\ pc = "aborted"
    /\ Len(log) >= 2
    /\ Last(log).cmd = "cp"
    /\ ~Last(log).ok
    /\ log[Len(log) - 1].cmd = "mv"
    /\ log[Len(log) - 1].ok

\* a backup_database call on environment e that returned before command i
BackupReturnedBefore(i, e, j) ==
    /\ j < i
    /\ log[j].cmd = "db_backup"
    /\ log[j].env = e
    /\ log[j].ok
    /\ HasMarker(log[j].out)

\* C7: every database load follows a backup of the source environment that
\* returned, and loads the path that backup reported (in fetch_data the
\* local copy fetched from that path); no database is cleared before the
\* backup returned.
C7_RestoreOnlyAfterBackup ==
    \A i \in 1..Len(log) :
        /\ (log[i].cmd = "db_load" /\ log[i].where = "remote") =>
              \E j \in 1..Len(log) :
                  /\ BackupReturnedBefore(i, other_env, j)
                  /\ log[i].env = env
                  /\ log[i].arg = PathReported(log[j].out)
        /\ (log[i].cmd = "db_load" /\ log[i].where = "local") =>
              \E j \in 1..Len(log), k \in 1..Len(log) :
                  /\ BackupReturnedBefore(k, env, j)
                  /\ k < i
                  /\ log[k].cmd = "get"
                  /\ log[k].ok
                  /\ log[k].arg = PathReported(log[j].out)
                  /\ log[k].dst = log[i].arg
        /\ log[i].cmd = "db_clear" =>
              \E j \in 1..Len(log) :
                  BackupReturnedBefore(i, IF InReset THEN other_env ELSE env, j)

C7_Witness ==
    /\ task = "reset_data_from"
    /\ pc = "done"
    /\ \E i \in 1..Len(log) :
          log[i].cmd = "db_load" /\ log[i].ok /\ log[i].arg = <<"/", "f">>

FetchDone == task = "fetch_data" /\ Terminal

\* C8 (as stated): in fetch_data the local clear+load is issued exactly when
\* the reset prompt is answered yes, the pull of the uploads exactly when
\* the uploads prompt is answered yes, and declining the reset still leads
\* to the uploads prompt.
C8_FetchPromptsIndependent ==
    FetchDone =>
        /\ Issued("db_clear", "local") <=> Answered("Reset local database", TRUE)
        /\ Issued("rdiff-backup", "local") <=> Answered("Fetch uploads", TRUE)
        /\ Answered("Reset local database", FALSE) => Asked("Fetch uploads")

\* C8 (amended): the local clear is issued exactly when the reset prompt is
\* answered yes; the uploads prompt is asked only once the local load has
\* succeeded, so the pull of the uploads is issued exactly when both prompts
\* are answered yes; declining the reset ends fetch_data with no local
\* command and without the uploads prompt.
C8_FetchUploadsOnlyAfterReset ==
    FetchDone =>
        /\ Issued("db_clear", "local") <=> Answered("Reset local database", TRUE)
        /\ Asked("Fetch uploads") <=>
              \E i \in 1..Len(log) :
                  log[i].cmd = "db_load" /\ log[i].where = "local" /\ log[i].ok
        /\ Issued("rdiff-backup", "local") <=>
              (Answered("Reset local database", TRUE) /\ Answered("Fetch uploads", TRUE))
        /\ Answered("Reset local database", FALSE) =>
              /\ pc = "done"
              /\ ~Asked("Fetch uploads")
              /\ \A i \in 1..Len(log) : log[i].where # "local"

C8_Witness ==
    /\ task = "fetch_data"
    /\ pc = "done"
    /\ Answered("Reset local database", FALSE)
    /\ Last(log).cmd = "get"

\* C9: the copy-media prompt of target.reset_data_from(source) names the
\* source as "from" and the target as "to", the direction of the cp.
C9_CopyPromptNamesCopyDirection ==
    \A i \in 1..Len(prompts) :
        prompts[i].q = "Copy media files" =>
            /\ prompts[i].from = other_env
            /\ prompts[i].to = env
            /\ \A j \in 1..Len(log) :
                  log[j].cmd = "cp" =>
                      (log[j].src = prompts[i].from /\ log[j].env = prompts[i].to)

\* C10: a deploy run whose commands all succeed starts with pull and ends
\* with migrate then reload, whatever the prompts' answers, and reload is
\* only ever issued right after migrate.
C10_PullFirstMigrateReloadLast ==
    /\ (task = "deploy" /\ Terminal /\ AllCmdsSucceeded) =>
          /\ Len(log) >= 3
          /\ log[1].cmd = "git pull"
          /\ log[Len(log) - 1].cmd = "migrate"
          /\ Last(log).cmd = "touch app.wsgi"
    /\ task = "deploy" =>
          \A i \in 1..Len(log) :
              log[i].cmd = "touch app.wsgi" => (i > 1 /\ log[i - 1].cmd = "migrate")

====
